---- MODULE Spec2Model ----
(***************************************************************************)
(* The self-update pipeline of lapce-data/src/update.rs:                   *)
(* get_latest_release, download_release, extract and restart, driven one   *)
(* after the other by the hosting application.                             *)
(*                                                                         *)
(* Rust strings that the code slices or prefix-tests are sequences of      *)
(* characters, each character a one-element TLA+ string; a character has a *)
(* UTF-8 width, and slices are taken at byte offsets as str indexing does. *)
(***************************************************************************)
EXTENDS Integers, Sequences, FiniteSets, TLC

\* ------------------------------------------------------------------ bounds

\* Longest asset list of a metadata response.
MaxAssets == 2

\* Longest commit identifier of a metadata response, in characters.
MaxCommitLen == 8

\* ------------------------------------------------------------- Rust strings

\* A character outside ASCII: two bytes in UTF-8.
TwoByteChars == {"U+00E9"}

Utf8Len(c) == IF c \in TwoByteChars THEN 2 ELSE 1

RECURSIVE ByteLen(_)
ByteLen(s) == IF s = <<>> THEN 0 ELSE Utf8Len(Head(s)) + ByteLen(Tail(s))

\* str::is_char_boundary: offset i starts a character or is the end.
IsCharBoundary(s, i) ==
    \E k \in 0..Len(s) : ByteLen(SubSeq(s, 1, k)) = i

\* The number of characters that make the first i bytes (i a boundary).
CharsBefore(s, i) ==
    CHOOSE k \in 0..Len(s) : ByteLen(SubSeq(s, 1, k)) = i

NoStr == <<>>

\* &s[..n]: panics unless n is a character boundary of s.
SliceTo(s, n) ==
    IF IsCharBoundary(s, n)
    THEN [panic |-> FALSE, val |-> SubSeq(s, 1, CharsBefore(s, n))]
    ELSE [panic |-> TRUE, val |-> NoStr]

\* &s[n..]: panics unless n is a character boundary of s.
SliceFrom(s, n) ==
    IF IsCharBoundary(s, n)
    THEN [panic |-> FALSE, val |-> SubSeq(s, CharsBefore(s, n) + 1, Len(s))]
    ELSE [panic |-> TRUE, val |-> NoStr]

\* str::starts_with.
StartsWith(s, p) == Len(s) >= Len(p) /\ SubSeq(s, 1, Len(p)) = p

Debug == <<"d", "e", "b", "u", "g">>
Nightly == <<"n", "i", "g", "h", "t", "l", "y">>
NightlyDash == Nightly \o <<"-">>

\* ------------------------------------------------------ get_latest_release

NightlyUrl == "https://api.github.com/repos/lapce/lapce/releases/tags/nightly"
LatestUrl == "https://api.github.com/repos/lapce/lapce/releases/latest"

\* ResolveUrl without the arm for the development build.
ResolveUrl_NoSentinel(v) ==
    IF StartsWith(v, Nightly) THEN [ok |-> TRUE, url |-> NightlyUrl]
    ELSE [ok |-> TRUE, url |-> LatestUrl]

\* ResolveUrl testing for the prefix on the wrong arm.
ResolveUrl_ChannelsSwapped(v) ==
    IF v = Debug THEN [ok |-> FALSE, url |-> ""]
    ELSE IF StartsWith(v, Nightly) THEN [ok |-> TRUE, url |-> LatestUrl]
    ELSE [ok |-> TRUE, url |-> NightlyUrl]

\* The match on VERSION: the endpoint, or no release channel.
ResolveUrl(v) ==
    IF v = Debug THEN [ok |-> FALSE, url |-> ""]
    ELSE IF StartsWith(v, Nightly) THEN [ok |-> TRUE, url |-> NightlyUrl]
    ELSE [ok |-> TRUE, url |-> LatestUrl]

\* The length of the abbreviated commit identifier.
CommitPrefixLen == 7

\* The offset at which the tag's version starts.
TagPrefixLen == 1

\* NormalizedVersion with the commit slice one byte too long.
NormalizedVersion_OffByOne(tag, commit) ==
    IF tag = Nightly
    THEN LET s == SliceTo(commit, CommitPrefixLen + 1)
         IN  [panic |-> s.panic, val |-> IF s.panic THEN NoStr ELSE NightlyDash \o s.val]
    ELSE SliceFrom(tag, TagPrefixLen)

\* release.version, from tag_name and target_commitish.
NormalizedVersion(tag, commit) ==
    IF tag = Nightly
    THEN LET s == SliceTo(commit, CommitPrefixLen)
         IN  [panic |-> s.panic, val |-> IF s.panic THEN NoStr ELSE NightlyDash \o s.val]
    ELSE SliceFrom(tag, TagPrefixLen)

\* ------------------------------------------------------------------ inputs

Prefixes(s) == {SubSeq(s, 1, k) : k \in 0..(IF Len(s) < MaxCommitLen THEN Len(s) ELSE MaxCommitLen)}

HexCommit == <<"a", "b", "c", "d", "e", "f", "1", "2", "3", "4">>
WideHeadCommit == <<"U+00E9", "a", "b", "c", "d", "e", "f", "g", "h", "i">>
WideTailCommit == <<"a", "b", "c", "d", "e", "f", "U+00E9", "g", "h", "i">>

\* target_commitish of the responses.
Commits == Prefixes(HexCommit) \cup Prefixes(WideHeadCommit) \cup Prefixes(WideTailCommit)

StableTags == {<<>>, <<"v">>, <<"v", "1", ".", "2", ".", "3">>, <<"U+00E9", "1">>}

AssetNames ==
    {"Lapce-macos.dmg", "Lapce-linux.tar.gz", "Lapce-windows-portable.zip",
     "lapce-linux.tar.gz"}

AssetUrls == {"U1", "U2"}

\* struct ReleaseAsset.
ReleaseAsset == [name : AssetNames, browser_download_url : AssetUrls]

AssetLists == UNION {[1..n -> ReleaseAsset] : n \in 0..MaxAssets}

\* struct ReleaseInfo as deserialized: version is skipped, so it is the empty String.
Parsed(tag, commit, assets) ==
    [tag_name |-> tag, target_commitish |-> commit, assets |-> assets, version |-> NoStr]

NoRelease == Parsed(NoStr, NoStr, <<>>)

\* The response bodies that parse as ReleaseInfo.
ReleaseBodies ==
    {Parsed(Nightly, c, a) : c \in Commits, a \in AssetLists}
    \cup {Parsed(t, HexCommit, a) : t \in StableTags, a \in AssetLists}

\* The values of lapce_proxy::VERSION.
Versions == {Debug, NightlyDash \o <<"a">>, <<"0", ".", "2">>}

\* The values of std::env::consts::OS.
OsNames == {"macos", "linux", "windows", "freebsd"}

\* No asset GET was attempted.
NoDownload ==
    [sent |-> FALSE, success |-> FALSE, textOk |-> FALSE, createOk |-> FALSE,
     body |-> <<>>, copied |-> -1]

\* A file: whether it exists and its content, a sequence of chunks.
File(data) == [exists |-> TRUE, data |-> data]
NoFile == [exists |-> FALSE, data |-> <<>>]

\* The bodies an asset download can deliver: an archive is a header chunk
\* followed by its entries.
AssetBodies == {<<"hdr", "bin1">>, <<"hdr", "other">>, <<"junk">>}

StaleArchive == <<"hdr", "bin0">>

\* The binary an earlier run unpacked beside its archive and left there.
StaleBinary == <<"bin0">>

\* --------------------------------------------------------------------- state

VARIABLES
    VERSION,     \* lapce_proxy::VERSION of the running build
    OS,          \* std::env::consts::OS of the host
    pc,          \* the stage the pipeline is in
    outcome,     \* how the run ended, "running" until then
    entered,     \* the stages entered so far, in order
    url,         \* the endpoint chosen by the match on VERSION
    release,     \* the ReleaseInfo handed from stage to stage
    ret,         \* what the running stage's function returned
    requests,    \* every HTTP GET sent, in order
    fs,          \* the files the pipeline touches
    fs0,         \* the files as they were when the pipeline started
    dl,          \* what happened to the asset GET, NoDownload before it
    arg,         \* the path passed to the running stage's function
    execResult,  \* what exec() did: "none", "replaced" or "error"
    helper,      \* the detached helper command on Windows: "none", then
                 \* "spawned", "start" (taskkill has run) and "done"
    ex,          \* the call of extract: its process_path and what its steps met
    app,         \* the running process: "running", "closing" or "terminated"
    newApp,      \* the instance the helper starts: "none", "running" or "failed"
    conc         \* two invocations run side by side (SpecConc): their
                 \* positions, responses, writes and reads, and the files

vars == <<VERSION, OS, pc, outcome, entered, url, release, ret, requests, fs,
          fs0, dl, arg, execResult, helper, ex, app, newApp, conc>>

NoPath == <<>>

NoRet == [kind |-> "none", err |-> "", path |-> NoPath]
Ok(path) == [kind |-> "Ok", err |-> "", path |-> path]
Err(e) == [kind |-> "Err", err |-> e, path |-> NoPath]
Panic == [kind |-> "Panic", err |-> "", path |-> NoPath]

\* extract has not been called.
NoExtract ==
    [process_path |-> NoPath, openOk |-> FALSE, unpackOk |-> FALSE,
     partial |-> FALSE, removeOk |-> FALSE, copyOk |-> FALSE]

\* The invocations that run side by side.
Procs == {1, 2}

\* No second invocation: the pipeline runs alone.
NoConc ==
    [pc |-> [p \in Procs |-> "idle"], body |-> [p \in Procs |-> <<>>],
     copied |-> [p \in Procs |-> 0], read |-> [p \in Procs |-> NoFile],
     files |-> <<>>, overlap |-> FALSE]

Stages == <<"Resolving", "Fetching", "Downloading", "Extracting", "Relaunching">>

Init ==
    /\ VERSION \in Versions
    /\ OS \in OsNames
    /\ pc = "Idle"
    /\ outcome = "running"
    /\ entered = <<>>
    /\ url = ""
    /\ release = NoRelease
    /\ ret = NoRet
    /\ requests = <<>>
    /\ fs \in {f \in [artifact : {NoFile, File(StaleArchive)},
                       unpacked : {NoFile, File(StaleBinary)},
                       process : {File(<<"old">>)},
                       bundle : {NoFile, File(<<"oldapp">>)}] :
                 /\ f.unpacked.exists => (f.artifact.exists /\ OS \in {"linux", "windows"})
                 /\ f.bundle.exists => OS = "macos"}
    /\ fs0 = fs
    /\ dl = NoDownload
    /\ arg = NoPath
    /\ execResult = "none"
    /\ helper = "none"
    /\ ex = NoExtract
    /\ app = "running"
    /\ newApp = "none"
    /\ conc = NoConc

\* ------------------------------------------------------ get_latest_release

Request(fn, u) == [fn |-> fn, url |-> u]

\* Lines 23-32: the match on VERSION.
Resolve ==
    /\ pc = "Resolving" /\ ret = NoRet
    /\ LET r == ResolveUrl(VERSION)
       IN  IF r.ok
           THEN /\ url' = r.url
                /\ pc' = "Fetching"
                /\ entered' = Append(entered, "Fetching")
                /\ ret' = ret
           ELSE /\ ret' = Err("no release for debug")
                /\ UNCHANGED <<url, pc, entered>>
    /\ UNCHANGED <<conc, ex, app, newApp>>
    /\ UNCHANGED <<VERSION, OS, outcome, release, requests, fs, fs0, dl, arg, execResult, helper>>

\* Lines 42-49: parse the body and derive release.version. The slice panics
\* with the deserialized release in hand.
ParseRelease(parsable, body) ==
    IF ~parsable THEN [ret |-> Err("serde_json::Error"), release |-> NoRelease]
    ELSE LET v == NormalizedVersion(body.tag_name, body.target_commitish)
         IN  IF v.panic
             THEN [ret |-> Panic, release |-> body]
             ELSE [ret |-> Ok(NoPath), release |-> [body EXCEPT !.version = v.val]]

\* Lines 39-49: what the function makes of a response.
OnMetadataResponse(success, textOk, parsable, body) ==
    IF ~textOk THEN [ret |-> Err("reqwest::Error"), release |-> NoRelease]
    ELSE IF ~success THEN [ret |-> Err("get release info failed"), release |-> NoRelease]
    ELSE ParseRelease(parsable, body)

\* The responses of the metadata endpoint: the status, whether the body can
\* be read, whether it parses as ReleaseInfo, and what it parses to.
MetadataResponses ==
    {[success |-> FALSE, textOk |-> t, parsable |-> FALSE, body |-> NoRelease] :
        t \in BOOLEAN}
    \cup {[success |-> TRUE, textOk |-> FALSE, parsable |-> FALSE, body |-> NoRelease]}
    \cup {[success |-> TRUE, textOk |-> TRUE, parsable |-> FALSE, body |-> NoRelease]}
    \cup {[success |-> TRUE, textOk |-> TRUE, parsable |-> TRUE, body |-> b] :
            b \in ReleaseBodies}

\* Lines 34-49: build the client, send the GET, read and parse the response.
Fetch ==
    /\ pc = "Fetching" /\ ret = NoRet
    /\ \/ \* ClientBuilder::build fails
          /\ ret' = Err("reqwest::Error")
          /\ UNCHANGED <<release, requests>>
       \/ \* send fails
          /\ requests' = Append(requests, Request("get_latest_release", url))
          /\ ret' = Err("reqwest::Error")
          /\ UNCHANGED release
       \/ \E resp \in MetadataResponses :
             LET r == OnMetadataResponse(resp.success, resp.textOk, resp.parsable,
                                         resp.body)
             IN  /\ requests' = Append(requests, Request("get_latest_release", url))
                 /\ ret' = r.ret
                 /\ release' = r.release
    /\ UNCHANGED <<conc, ex, app, newApp>>
    /\ UNCHANGED <<VERSION, OS, pc, outcome, entered, url, fs, fs0, dl, arg, execResult, helper>>

\* -------------------------------------------------------- download_release

\* What Directory::updates_directory() returns when it returns a directory.
UpdatesDir == <<"/", "updates">>

\* Path::join of a directory and a file name.
Join(dir, name) == Append(dir, name)

\* ExpectedName with the BSDs served the Linux archive.
ExpectedName_BsdAsLinux(os) ==
    IF os = "macos" THEN [ok |-> TRUE, name |-> "Lapce-macos.dmg"]
    ELSE IF os = "windows" THEN [ok |-> TRUE, name |-> "Lapce-windows-portable.zip"]
    ELSE [ok |-> TRUE, name |-> "Lapce-linux.tar.gz"]

\* Lines 55-60: the match on std::env::consts::OS.
ExpectedName(os) ==
    IF os = "macos" THEN [ok |-> TRUE, name |-> "Lapce-macos.dmg"]
    ELSE IF os = "linux" THEN [ok |-> TRUE, name |-> "Lapce-linux.tar.gz"]
    ELSE IF os = "windows" THEN [ok |-> TRUE, name |-> "Lapce-windows-portable.zip"]
    ELSE [ok |-> FALSE, name |-> ""]

\* str::to_lowercase on the asset names of the model.
Lower(name) == IF name = "Lapce-linux.tar.gz" THEN "lapce-linux.tar.gz" ELSE name

\* ScanAssets comparing the names without regard to case.
RECURSIVE ScanAssets_IgnoreCase(_, _, _)
ScanAssets_IgnoreCase(assets, name, i) ==
    IF i > Len(assets) THEN 0
    ELSE IF Lower(assets[i].name) = Lower(name) THEN i
    ELSE ScanAssets_IgnoreCase(assets, name, i + 1)

\* ScanAssets keeping the last matching asset instead of the first.
ScanAssets_LastMatch(assets, name, i) ==
    LET m == {j \in i..Len(assets) : assets[j].name = name}
    IN  IF m = {} THEN 0 ELSE CHOOSE j \in m : \A k \in m : k <= j

\* Lines 63-64: the loop over release.assets from position i; the position
\* of the asset whose branch is taken, 0 when the loop falls through.
RECURSIVE ScanAssets(_, _, _)
ScanAssets(assets, name, i) ==
    IF i > Len(assets) THEN 0
    ELSE IF assets[i].name = name THEN i
    ELSE ScanAssets(assets, name, i + 1)

FindAsset(assets, name) == ScanAssets(assets, name, 1)

\* DownloadAsset creating the file before it tests the status.
DownloadAsset_CreateFirst(file, file_path, sent, success, textOk, createOk, body, copied) ==
    IF ~sent THEN [ret |-> Err("reqwest::Error"), file |-> file]
    ELSE IF ~success
    THEN [ret |-> IF textOk THEN Err("download file error") ELSE Err("reqwest::Error"),
          file |-> File(<<>>)]
    ELSE IF ~createOk THEN [ret |-> Err("io::Error"), file |-> file]
    ELSE IF copied < Len(body)
    THEN [ret |-> Err("reqwest::Error"), file |-> File(SubSeq(body, 1, copied))]
    ELSE [ret |-> Ok(file_path), file |-> File(body)]

\* Lines 65-71: the branch of the matching asset. The GET is sent; then the
\* status is tested, the file created (truncated) and the body copied into it,
\* `copied` chunks of it before copy_to returns.
DownloadAsset(file, file_path, sent, success, textOk, createOk, body, copied) ==
    IF ~sent THEN [ret |-> Err("reqwest::Error"), file |-> file]
    ELSE IF ~success
    THEN [ret |-> IF textOk THEN Err("download file error") ELSE Err("reqwest::Error"),
          file |-> file]
    ELSE IF ~createOk THEN [ret |-> Err("io::Error"), file |-> file]
    ELSE IF copied < Len(body)
    THEN [ret |-> Err("reqwest::Error"), file |-> File(SubSeq(body, 1, copied))]
    ELSE [ret |-> Ok(file_path), file |-> File(body)]

\* What can happen to the GET of an asset: it is sent or fails; the status;
\* whether the error body can be read; whether the file can be created; the
\* body and how many chunks of it are copied before copy_to returns.
DownloadResponses ==
    {[sent |-> FALSE, success |-> FALSE, textOk |-> FALSE, createOk |-> FALSE,
      body |-> <<>>, copied |-> 0]}
    \cup {[sent |-> TRUE, success |-> FALSE, textOk |-> t, createOk |-> FALSE,
           body |-> <<>>, copied |-> 0] : t \in BOOLEAN}
    \cup {[sent |-> TRUE, success |-> TRUE, textOk |-> TRUE, createOk |-> FALSE,
           body |-> <<>>, copied |-> 0]}
    \cup UNION {{[sent |-> TRUE, success |-> TRUE, textOk |-> TRUE, createOk |-> TRUE,
                  body |-> b, copied |-> k] : k \in 0..Len(b)} : b \in AssetBodies}

\* Lines 52-76.
Download ==
    /\ pc = "Downloading" /\ ret = NoRet
    /\ \/ \* updates_directory() is None
          /\ ret' = Err("no directory")
          /\ UNCHANGED <<requests, fs, dl>>
       \/ LET n == ExpectedName(OS)
              i == FindAsset(release.assets, n.name)
          IN  IF ~n.ok
              THEN /\ ret' = Err("os not supported")
                   /\ UNCHANGED <<requests, fs, dl>>
              ELSE IF i = 0
              THEN /\ ret' = Err("can't download release")
                   /\ UNCHANGED <<requests, fs, dl>>
              ELSE \E resp \in DownloadResponses :
                      LET r == DownloadAsset(fs.artifact, Join(UpdatesDir, n.name),
                                             resp.sent, resp.success, resp.textOk,
                                             resp.createOk, resp.body, resp.copied)
                      IN  /\ requests' =
                                Append(requests,
                                       Request("download_release",
                                               release.assets[i].browser_download_url))
                          /\ ret' = r.ret
                          /\ fs' = [fs EXCEPT !.artifact = r.file]
                          /\ dl' = resp
    /\ UNCHANGED <<conc, ex, app, newApp>>
    /\ UNCHANGED <<VERSION, OS, pc, outcome, entered, url, release, fs0, arg, execResult,
                   helper>>

\* ------------------------------------------------------------------ paths

Some(p) == [some |-> TRUE, val |-> p]
None == [some |-> FALSE, val |-> NoPath]

\* Path::parent: None for the root and for the empty path.
Parent(p) ==
    IF p = <<>> \/ p = <<"/">> THEN None ELSE Some(SubSeq(p, 1, Len(p) - 1))

\* Path::file_name: the last component, unless the path ends in the root.
FileName(p) ==
    IF p = <<>> \/ p[Len(p)] = "/" THEN [some |-> FALSE, val |-> ""]
    ELSE [some |-> TRUE, val |-> p[Len(p)]]

\* The paths of the running executable that extract is called with.
ProcessPaths ==
    {<<"/", "Applications", "Lapce.app", "Contents", "MacOS", "lapce">>,
     <<"/", "opt", "lapce">>,
     <<"/", "MacOS", "lapce">>,
     <<"/">>}

\* ------------------------------------------------------------------ extract

\* What a call of extract is given and meets: the path of the running
\* executable, and whether opening (or mounting) the artifact, unpacking it,
\* removing the old executable (or bundle) and copying the new one succeed;
\* `partial`: a failing unpack has already written part of the binary.
ExtractCalls ==
    [process_path : ProcessPaths, openOk : BOOLEAN, unpackOk : BOOLEAN,
     partial : BOOLEAN, removeOk : BOOLEAN, copyOk : BOOLEAN]

\* An archive entry that is the application binary (or bundle).
IsBinary(chunk) == chunk \in {"bin0", "bin1"}

\* Whether the archive decodes: it has its header and is not cut short.
Decodes(data) == Len(data) >= 2 /\ data[1] = "hdr"

\* archive.unpack / archive.extract into the artifact's parent directory: the
\* binary's entry, when the archive has one, is written over the unpacked file.
UnpackArchive(data, unpacked, ioOk, partial) ==
    IF ~Decodes(data) THEN [ok |-> FALSE, unpacked |-> unpacked]
    ELSE IF ~ioOk
    THEN [ok |-> FALSE,
          unpacked |-> IF partial /\ IsBinary(data[2]) THEN File(<<>>) ELSE unpacked]
    ELSE [ok |-> TRUE,
          unpacked |-> IF IsBinary(data[2]) THEN File(<<data[2]>>) ELSE unpacked]

\* Lines 110-112 and 122-124: remove the running executable, copy the
\* unpacked binary to its path.
ReplaceExecutable(f, process_path, removeOk, copyOk) ==
    IF ~(removeOk /\ f.process.exists /\ FileName(process_path).some)
    THEN [ret |-> Err("io::Error"), fs |-> f]
    ELSE IF ~f.unpacked.exists
    THEN [ret |-> Err("io::Error"), fs |-> [f EXCEPT !.process = NoFile]]
    ELSE IF ~copyOk
    THEN [ret |-> Err("io::Error"), fs |-> [f EXCEPT !.process = File(<<>>)]]
    ELSE [ret |-> Ok(process_path), fs |-> [f EXCEPT !.process = File(f.unpacked.data)]]

\* ExtractTar removing the running executable before it unpacks.
ExtractTar_RemoveFirst(f, src, process_path, openOk, unpackOk, partial, removeOk, copyOk) ==
    IF ~(f.artifact.exists /\ openOk) THEN [ret |-> Err("io::Error"), fs |-> f]
    ELSE IF ~Parent(src).some THEN [ret |-> Err("no parent"), fs |-> f]
    ELSE IF ~(removeOk /\ f.process.exists /\ FileName(process_path).some)
    THEN [ret |-> Err("io::Error"), fs |-> f]
    ELSE LET u == UnpackArchive(f.artifact.data, f.unpacked, unpackOk, partial)
             g == [f EXCEPT !.unpacked = u.unpacked, !.process = NoFile]
         IN  IF ~u.ok THEN [ret |-> Err("io::Error"), fs |-> g]
             ELSE IF ~(g.unpacked.exists /\ copyOk) THEN [ret |-> Err("io::Error"), fs |-> g]
             ELSE [ret |-> Ok(process_path),
                   fs |-> [g EXCEPT !.process = File(g.unpacked.data)]]

\* Lines 103-113: the Linux and BSD variant.
ExtractTar(f, src, process_path, openOk, unpackOk, partial, removeOk, copyOk) ==
    IF ~(f.artifact.exists /\ openOk) THEN [ret |-> Err("io::Error"), fs |-> f]
    ELSE IF ~Parent(src).some THEN [ret |-> Err("no parent"), fs |-> f]
    ELSE LET u == UnpackArchive(f.artifact.data, f.unpacked, unpackOk, partial)
             g == [f EXCEPT !.unpacked = u.unpacked]
         IN  IF ~u.ok THEN [ret |-> Err("io::Error"), fs |-> g]
             ELSE ReplaceExecutable(g, process_path, removeOk, copyOk)

\* Lines 115-125: the Windows variant.
ExtractZip(f, src, process_path, openOk, unpackOk, partial, removeOk, copyOk) ==
    IF ~Parent(src).some THEN [ret |-> Err("no parent"), fs |-> f]
    ELSE IF ~(f.artifact.exists /\ openOk) THEN [ret |-> Err("io::Error"), fs |-> f]
    ELSE LET u == UnpackArchive(f.artifact.data, f.unpacked, unpackOk, partial)
             g == [f EXCEPT !.unpacked = u.unpacked]
         IN  IF ~u.ok THEN [ret |-> Err("zip::ZipError"), fs |-> g]
             ELSE ReplaceExecutable(g, process_path, removeOk, copyOk)

\* Destination stopping at the bundle's Contents folder's parent: one
\* parent() short.
Destination_TwoUp(dir) ==
    IF FileName(dir).some /\ FileName(dir).val = "MacOS"
    THEN LET p1 == Parent(dir)
             p2 == IF p1.some THEN Parent(p1.val) ELSE None
         IN  [panic |-> ~p2.some, val |-> p2.val]
    ELSE [panic |-> FALSE, val |-> dir]

\* Lines 82-86: the install destination; the unwraps panic on a missing parent.
Destination(dir) ==
    IF FileName(dir).some /\ FileName(dir).val = "MacOS"
    THEN LET p1 == Parent(dir)
             p2 == IF p1.some THEN Parent(p1.val) ELSE None
             p3 == IF p2.some THEN Parent(p2.val) ELSE None
         IN  [panic |-> ~p3.some, val |-> p3.val]
    ELSE [panic |-> FALSE, val |-> dir]

\* copy_items with overwrite copies into a bundle that is still there: what
\* the old bundle had and the new one lacks stays.
Leftover(bundle) == IF bundle.exists THEN <<"leftover">> ELSE <<>>

\* Lines 78-101: the macOS variant. The mounted volume holds the bundle when
\* the image has one; remove_dir_all's result is dropped.
ExtractDmg(f, src, process_path, openOk, unpackOk, partial, removeOk, copyOk) ==
    IF ~(f.artifact.exists /\ openOk /\ Decodes(f.artifact.data))
    THEN [ret |-> Err("dmg error"), fs |-> f]
    ELSE LET mounted == IF IsBinary(f.artifact.data[2])
                        THEN File(<<f.artifact.data[2]>>) ELSE NoFile
             g == [f EXCEPT !.unpacked = mounted]
             dir == Parent(process_path)
         IN  IF ~dir.some THEN [ret |-> Err("no parent"), fs |-> g]
             ELSE LET dest == Destination(dir.val)
                      h == IF removeOk THEN [g EXCEPT !.bundle = NoFile] ELSE g
                  IN  IF dest.panic THEN [ret |-> Panic, fs |-> g]
                      ELSE IF ~mounted.exists
                      THEN [ret |-> Err("fs_extra::Error"), fs |-> h]
                      ELSE IF ~copyOk
                      THEN [ret |-> Err("fs_extra::Error"),
                            fs |-> [h EXCEPT !.bundle = File(Leftover(h.bundle))]]
                      ELSE [ret |-> Ok(Join(dest.val, "Lapce.app")),
                            fs |-> [h EXCEPT !.bundle =
                                        File(mounted.data \o Leftover(h.bundle))]]

\* The variant the build compiles in (cfg(target_os)).
ExtractVariant(os, f, src, process_path, openOk, unpackOk, partial, removeOk, copyOk) ==
    IF os = "macos"
    THEN ExtractDmg(f, src, process_path, openOk, unpackOk, partial, removeOk, copyOk)
    ELSE IF os = "windows"
    THEN ExtractZip(f, src, process_path, openOk, unpackOk, partial, removeOk, copyOk)
    ELSE ExtractTar(f, src, process_path, openOk, unpackOk, partial, removeOk, copyOk)

Extract ==
    /\ pc = "Extracting" /\ ret = NoRet
    /\ \E c \in ExtractCalls :
          LET r == ExtractVariant(OS, fs, arg, c.process_path, c.openOk, c.unpackOk,
                                  c.partial, c.removeOk, c.copyOk)
          IN  /\ ret' = r.ret
              /\ fs' = r.fs
              /\ ex' = c
    /\ UNCHANGED <<conc, app, newApp>>
    /\ UNCHANGED <<VERSION, OS, pc, outcome, entered, url, release, requests, fs0, dl,
                   arg, execResult, helper>>

\* ------------------------------------------------------------------ restart

\* Lines 127-144: exec() replaces the process image and does not return, or
\* returns the error, which the function drops before returning Ok(()).
RestartUnix(execOk) ==
    IF execOk
    THEN [returns |-> FALSE, ret |-> NoRet, execResult |-> "replaced", helper |-> "none"]
    ELSE [returns |-> TRUE, ret |-> Ok(NoPath), execResult |-> "error", helper |-> "none"]

\* RestartWindows running the helper to its end before it returns
\* (Command::status in place of Command::spawn).
RestartWindows_WaitsForHelper(utf8, spawnOk) ==
    IF ~utf8
    THEN [returns |-> TRUE, ret |-> Err("can't get path to str"),
          execResult |-> "none", helper |-> "none"]
    ELSE IF ~spawnOk
    THEN [returns |-> TRUE, ret |-> Err("io::Error"),
          execResult |-> "none", helper |-> "none"]
    ELSE [returns |-> TRUE, ret |-> Ok(NoPath),
          execResult |-> "none", helper |-> "done"]

\* Lines 146-160: the detached cmd /C "taskkill /PID <pid> & start <path> -n".
RestartWindows(utf8, spawnOk) ==
    IF ~utf8
    THEN [returns |-> TRUE, ret |-> Err("can't get path to str"),
          execResult |-> "none", helper |-> "none"]
    ELSE IF ~spawnOk
    THEN [returns |-> TRUE, ret |-> Err("io::Error"),
          execResult |-> "none", helper |-> "none"]
    ELSE [returns |-> TRUE, ret |-> Ok(NoPath),
          execResult |-> "none", helper |-> "spawned"]

Restart ==
    /\ pc = "Relaunching" /\ ret = NoRet /\ outcome = "running"
    /\ \E utf8 \in BOOLEAN, ok \in BOOLEAN :
          LET r == IF OS = "windows" THEN RestartWindows(utf8, ok) ELSE RestartUnix(ok)
          IN  /\ ret' = r.ret
              /\ execResult' = r.execResult
              /\ helper' = r.helper
              /\ outcome' = IF r.returns THEN outcome ELSE "Replaced"
    /\ UNCHANGED <<conc, ex, app, newApp>>
    /\ UNCHANGED <<VERSION, OS, pc, entered, url, release, requests, fs, fs0, dl, arg>>

\* Line 156, "taskkill /PID <pid>": without /F it asks the process to close
\* and returns without waiting for it to end; it can also fail.
HelperTaskkill ==
    /\ helper = "spawned"
    /\ helper' = "start"
    /\ \E delivered \in BOOLEAN :
          app' = IF delivered /\ app = "running" THEN "closing" ELSE app
    /\ UNCHANGED <<conc, ex, newApp>>
    /\ UNCHANGED <<VERSION, OS, pc, outcome, entered, url, release, ret, requests, fs,
                   fs0, dl, arg, execResult>>

\* The process asked to close ends.
AppExit ==
    /\ app = "closing"
    /\ app' = "terminated"
    /\ UNCHANGED <<conc, ex, newApp>>
    /\ UNCHANGED <<VERSION, OS, pc, outcome, entered, url, release, ret, requests, fs,
                   fs0, dl, arg, execResult, helper>>

\* Line 156, "& start <path> -n": cmd runs it once taskkill has returned,
\* whatever taskkill's exit code.
HelperStart ==
    /\ helper = "start"
    /\ helper' = "done"
    /\ \E started \in BOOLEAN : newApp' = IF started THEN "running" ELSE "failed"
    /\ UNCHANGED <<conc, ex, app>>
    /\ UNCHANGED <<VERSION, OS, pc, outcome, entered, url, release, ret, requests, fs,
                   fs0, dl, arg, execResult>>

\* ------------------------------------------------------------- the pipeline

\* The stage after stage number i of Stages.
StageIndex(s) == CHOOSE i \in 1..Len(Stages) : Stages[i] = s

\* The hosting application starts an update.
Start ==
    /\ pc = "Idle"
    /\ pc' = "Resolving"
    /\ entered' = Append(entered, "Resolving")
    /\ UNCHANGED <<conc, ex, app, newApp>>
    /\ UNCHANGED <<VERSION, OS, outcome, url, release, ret, requests, fs, fs0, dl,
                   arg, execResult, helper>>

\* A stage's function returned Ok: its output goes to the next stage; the
\* release is dropped once the downloader has consumed it.
Proceed ==
    /\ outcome = "running" /\ ret.kind = "Ok" /\ app # "terminated"
    /\ IF pc = "Relaunching"
       THEN /\ outcome' = "Returned"
            /\ UNCHANGED <<pc, entered, release, ret, arg>>
       ELSE LET next == Stages[StageIndex(pc) + 1]
            IN  /\ pc' = next
                /\ entered' = Append(entered, next)
                /\ arg' = ret.path
                /\ release' = IF pc = "Downloading" THEN NoRelease ELSE release
                /\ ret' = NoRet
                /\ UNCHANGED outcome
    /\ UNCHANGED <<conc, ex, app, newApp>>
    /\ UNCHANGED <<VERSION, OS, url, requests, fs, fs0, dl, execResult, helper>>

\* A stage's function returned Err: the run ends, Failed(pc, ret.err).
Abort ==
    /\ outcome = "running" /\ ret.kind = "Err"
    /\ outcome' = "Failed"
    /\ UNCHANGED <<conc, ex, app, newApp>>
    /\ UNCHANGED <<VERSION, OS, pc, entered, url, release, ret, requests, fs, fs0, dl,
                   arg, execResult, helper>>

\* A stage's function panicked: the panic unwinds the worker.
Unwind ==
    /\ outcome = "running" /\ ret.kind = "Panic"
    /\ outcome' = "Crashed"
    /\ UNCHANGED <<conc, ex, app, newApp>>
    /\ UNCHANGED <<VERSION, OS, pc, entered, url, release, ret, requests, fs, fs0, dl,
                   arg, execResult, helper>>

Next ==
    \/ Start
    \/ Resolve
    \/ Fetch
    \/ Download
    \/ Extract
    \/ Restart
    \/ HelperTaskkill
    \/ AppExit
    \/ HelperStart
    \/ Proceed
    \/ Abort
    \/ Unwind

Spec == Init /\ [][Next]_vars

\* ------------------------------------------- two invocations side by side

\* Line 66: file_path = dir.join(name). The directory and the name come from
\* the host alone, so every invocation computes the same path.
FilePath(p) == Join(UpdatesDir, ExpectedName(OS).name)

ConcPaths == {FilePath(p) : p \in Procs}

\* The positions of an invocation that lie inside download_release.
InDownload == {"get", "create", "copy"}

\* The positions of an invocation that has created the file at its path.
HasCreated == {"copy", "aborted", "extract", "done"}

\* Records that both invocations are inside download_release at once.
Mark(c) == [c EXCEPT !.overlap = c.overlap \/ \A p \in Procs : c.pc[p] \in InDownload]

\* The byte a hole in a file reads as.
Zero == "zero"

\* Write of one chunk through a handle whose offset is off chunks: the chunk
\* lands at the handle's own offset, a gap before it reads as zeros.
WriteAt(data, off, chunk) ==
    [i \in 1..(IF Len(data) > off + 1 THEN Len(data) ELSE off + 1) |->
        IF i = off + 1 THEN chunk
        ELSE IF i <= Len(data) THEN data[i]
        ELSE Zero]

\* CreateStep taking an exclusive lock on the path: it waits while another
\* invocation is writing the file.
CreateStep_Exclusive(c, p) ==
    IF \E q \in Procs \ {p} : c.pc[q] = "copy" THEN {}
    ELSE {[c EXCEPT !.pc[p] = "copy", !.copied[p] = 0,
                    !.files[FilePath(p)] = File(<<>>)],
          [c EXCEPT !.pc[p] = "failed"]}

\* Line 69: std::fs::File::create(&file_path)?. It truncates whatever is at
\* the path, whoever wrote it, or fails and leaves it alone.
CreateStep(c, p) ==
    {[c EXCEPT !.pc[p] = "copy", !.copied[p] = 0,
               !.files[FilePath(p)] = File(<<>>)],
     [c EXCEPT !.pc[p] = "failed"]}

\* Lines 70: resp.copy_to(&mut out)? moves the body one chunk at a time, or
\* stops with an error part of the way.
CopyStep(c, p) ==
    {[c EXCEPT !.copied[p] = @ + 1,
               !.files[FilePath(p)] =
                   File(WriteAt(c.files[FilePath(p)].data, c.copied[p],
                                c.body[p][c.copied[p] + 1]))],
     [c EXCEPT !.pc[p] = "aborted"]}

\* The sequential variables: a second invocation does not touch them.
seqvars == <<VERSION, OS, pc, outcome, entered, url, release, ret, requests, fs,
             fs0, dl, arg, execResult, helper, ex, app, newApp>>

\* Two invocations on a Linux host, neither started yet.
InitConc ==
    /\ VERSION = <<"0", ".", "2">>
    /\ OS = "linux"
    /\ pc = "Idle"
    /\ outcome = "running"
    /\ entered = <<>>
    /\ url = ""
    /\ release = NoRelease
    /\ ret = NoRet
    /\ requests = <<>>
    /\ fs = [artifact |-> NoFile, unpacked |-> NoFile,
             process |-> File(<<"old">>), bundle |-> NoFile]
    /\ fs0 = fs
    /\ dl = NoDownload
    /\ arg = NoPath
    /\ execResult = "none"
    /\ helper = "none"
    /\ ex = NoExtract
    /\ app = "running"
    /\ newApp = "none"
    /\ conc = [NoConc EXCEPT !.files = [path \in ConcPaths |-> NoFile]]

\* An invocation enters download_release (line 52); nothing holds it back.
BeginDownload(p) ==
    /\ conc.pc[p] = "idle"
    /\ conc' = Mark([conc EXCEPT !.pc[p] = "get"])
    /\ UNCHANGED seqvars

\* Lines 62-68: the asset is found and fetched; a bad status or a failed
\* request returns an error before the file is touched.
GetAsset(p) ==
    /\ conc.pc[p] = "get"
    /\ \/ \E body \in AssetBodies :
            conc' = [conc EXCEPT !.pc[p] = "create", !.body[p] = body]
       \/ conc' = [conc EXCEPT !.pc[p] = "failed"]
    /\ UNCHANGED seqvars

\* Line 69.
CreateFile(p) ==
    /\ conc.pc[p] = "create"
    /\ conc' \in CreateStep(conc, p)
    /\ UNCHANGED seqvars

\* Line 70, one chunk.
CopyChunk(p) ==
    /\ conc.pc[p] = "copy"
    /\ conc.copied[p] < Len(conc.body[p])
    /\ conc' \in CopyStep(conc, p)
    /\ UNCHANGED seqvars

\* Line 71: Ok(file_path), once the whole body is copied; the path goes to
\* the extractor.
ReturnPath(p) ==
    /\ conc.pc[p] = "copy"
    /\ conc.copied[p] = Len(conc.body[p])
    /\ conc' = [conc EXCEPT !.pc[p] = "extract"]
    /\ UNCHANGED seqvars

\* Lines 106-108: the extractor opens the file at the path and reads what is
\* there at that moment.
OpenArtifact(p) ==
    /\ conc.pc[p] = "extract"
    /\ conc' = [conc EXCEPT !.pc[p] = "done", !.read[p] = conc.files[FilePath(p)]]
    /\ UNCHANGED seqvars

NextConc ==
    \E p \in Procs :
        \/ BeginDownload(p)
        \/ GetAsset(p)
        \/ CreateFile(p)
        \/ CopyChunk(p)
        \/ ReturnPath(p)
        \/ OpenArtifact(p)

SpecConc == InitConc /\ [][NextConc]_vars

\* -------------------------------------------------------------- error kinds

\* The error kind of the design for each error the functions return.
ErrorKind(e) ==
    CASE e = "no release for debug" -> "NoReleaseChannel"
      [] e = "get release info failed" -> "RemoteError"
      [] e = "download file error" -> "RemoteError"
      [] e = "serde_json::Error" -> "MalformedResponse"
      [] e = "no directory" -> "DirectoryUnavailable"
      [] e = "os not supported" -> "UnsupportedPlatform"
      [] e = "can't download release" -> "AssetNotFound"
      [] e = "no parent" -> "PathResolutionFailed"
      [] e = "io::Error" -> "IOError"
      [] e = "can't get path to str" -> "IOError"
      [] OTHER -> e

\* The asset GETs sent so far.
DownloadRequests == SelectSeq(requests, LAMBDA r : r.fn = "download_release")

\* The metadata GETs sent so far.
MetadataRequests == SelectSeq(requests, LAMBDA r : r.fn = "get_latest_release")

\* The named function has returned (or panicked) and the pipeline has not moved on.
Returned(stage) == pc = stage /\ ret # NoRet

UnixHost == OS \in {"macos", "linux", "freebsd"}

\* -------------------------------------------------------------------- claims

\* C1: on the Unix variants restart returns Ok only if the process image was
\* replaced; when the replacement succeeds control does not return, and when
\* it fails restart returns an error.
C1_UnixRestartContract ==
    (UnixHost /\ pc = "Relaunching") =>
        /\ (ret.kind = "Ok" => execResult = "replaced")
        /\ (execResult = "replaced" => ret = NoRet)
        /\ (execResult = "error" => ret.kind = "Err" /\ ErrorKind(ret.err) = "IOError")

\* C2: a nightly release whose commit identifier has fewer than 7 characters
\* makes get_latest_release return a MalformedResponse error: no panic, no
\* ReleaseInfo.
C2_ShortCommitIsMalformed ==
    (Returned("Fetching") /\ release.tag_name = Nightly
        /\ Len(release.target_commitish) < CommitPrefixLen) =>
        (ret.kind = "Err" /\ ErrorKind(ret.err) = "MalformedResponse")

\* Whether the running stage's operation failed.
StageFailed == ret.kind \in {"Err", "Panic"} \/ execResult = "error"

\* C3: the stages are entered in the order Resolving, Fetching, Downloading,
\* Extracting, Relaunching, each at most once; no stage is entered after a
\* failure, and a run in which a stage failed ends in Failed(stage, error).
C3_StrictForwardPipeline ==
    /\ Len(entered) <= Len(Stages)
    /\ \A i \in 1..Len(entered) : entered[i] = Stages[i]
    /\ (entered # <<>> => pc = entered[Len(entered)])
    /\ (StageFailed => outcome \in {"running", "Failed"})
    /\ (outcome = "Failed" => ret.kind = "Err")

\* The first n characters of s, all of s when it has fewer.
FirstChars(s, n) == SubSeq(s, 1, IF Len(s) < n THEN Len(s) ELSE n)

\* C4 as stated: the version of a fetched release is "nightly-" and the first
\* 7 characters of the commit identifier for a nightly release, and the tag
\* without its first character otherwise.
C4_VersionByCharacters ==
    (Returned("Fetching") /\ ret.kind = "Ok") =>
        IF release.tag_name = Nightly
        THEN release.version = NightlyDash \o FirstChars(release.target_commitish, 7)
        ELSE release.tag_name # <<>> /\ release.version = Tail(release.tag_name)

\* C4 amended: the version of a fetched nightly release is "nightly-" and the
\* first 7 bytes of the commit identifier's UTF-8 encoding, which are its
\* first 7 characters when those are ASCII; otherwise the version is the tag
\* without its first character.
C4_VersionByBytes ==
    (Returned("Fetching") /\ ret.kind = "Ok") =>
        LET c == release.target_commitish
        IN  IF release.tag_name = Nightly
            THEN /\ \E k \in 0..Len(c) :
                       /\ ByteLen(SubSeq(c, 1, k)) = 7
                       /\ release.version = NightlyDash \o SubSeq(c, 1, k)
                 /\ ((Len(c) >= 7 /\ \A i \in 1..7 : c[i] \notin TwoByteChars)
                        => release.version = NightlyDash \o FirstChars(c, 7))
            ELSE release.tag_name # <<>> /\ release.version = Tail(release.tag_name)

\* C4 witness: a nightly release fetched with a commit identifier that starts
\* with a two-byte character.
C4_Witness ==
    /\ Returned("Fetching") /\ ret.kind = "Ok"
    /\ release.tag_name = Nightly
    /\ release.target_commitish[1] \in TwoByteChars

\* C5: every ReleaseInfo that get_latest_release returns has a non-empty version.
C5_VersionNonEmpty ==
    (Returned("Fetching") /\ ret.kind = "Ok") => release.version # <<>>

\* C6: with VERSION "debug" get_latest_release fails with NoReleaseChannel and
\* no HTTP request is sent.
C6_DebugSendsNothing ==
    VERSION = Debug =>
        /\ requests = <<>>
        /\ pc \in {"Idle", "Resolving"}
        /\ (ret # NoRet => ret.kind = "Err" /\ ErrorKind(ret.err) = "NoReleaseChannel")

\* C6 witness: get_latest_release has returned in a debug build.
C6_Witness == VERSION = Debug /\ Returned("Resolving") /\ outcome = "Failed"

\* No asset GET was sent and the download path is as it was.
NothingDownloaded == DownloadRequests = <<>> /\ fs.artifact = fs0.artifact

UnsupportedHost == OS \notin {"macos", "linux", "windows"}

\* C7 as stated: on a host that is not macOS, Linux or Windows download_release
\* fails with UnsupportedPlatform, sends no download request and writes no file.
C7_UnsupportedPlatform ==
    (Returned("Downloading") /\ UnsupportedHost) =>
        /\ ret.kind = "Err" /\ ErrorKind(ret.err) = "UnsupportedPlatform"
        /\ NothingDownloaded

\* C7 amended: on such a host download_release fails with UnsupportedPlatform,
\* or with DirectoryUnavailable when the updates directory cannot be resolved
\* (which is tested first), and sends no download request and writes no file.
C7_UnsupportedPlatformOrNoDirectory ==
    (Returned("Downloading") /\ UnsupportedHost) =>
        /\ ret.kind = "Err"
        /\ ErrorKind(ret.err) \in {"UnsupportedPlatform", "DirectoryUnavailable"}
        /\ NothingDownloaded

\* C7 witness: download_release has refused an unsupported host whose release
\* lists the Linux archive.
C7_Witness ==
    /\ Returned("Downloading") /\ UnsupportedHost
    /\ ret.err = "os not supported"
    /\ \E i \in 1..Len(release.assets) : release.assets[i].name = "Lapce-linux.tar.gz"

\* The name download_release expects on the three supported hosts.
HostAssetName ==
    CASE OS = "macos" -> "Lapce-macos.dmg"
      [] OS = "linux" -> "Lapce-linux.tar.gz"
      [] OS = "windows" -> "Lapce-windows-portable.zip"
      [] OTHER -> ""

\* The positions of the assets named exactly as the host expects.
Matches == {i \in 1..Len(release.assets) : release.assets[i].name = HostAssetName}

\* C8 as stated: when no asset is named exactly as the host expects,
\* download_release fails with AssetNotFound, sends no download request and
\* leaves the download path alone.
C8_AssetNotFound ==
    (Returned("Downloading") /\ ~UnsupportedHost /\ Matches = {}) =>
        /\ ret.kind = "Err" /\ ErrorKind(ret.err) = "AssetNotFound"
        /\ NothingDownloaded

\* C8 amended: ... fails with AssetNotFound, or with DirectoryUnavailable when
\* the updates directory cannot be resolved, and sends no download request and
\* leaves the download path alone.
C8_AssetNotFoundOrNoDirectory ==
    (Returned("Downloading") /\ ~UnsupportedHost /\ Matches = {}) =>
        /\ ret.kind = "Err"
        /\ ErrorKind(ret.err) \in {"AssetNotFound", "DirectoryUnavailable"}
        /\ NothingDownloaded

\* C8 witness: on Linux the release lists only the archive under a name that
\* differs in case, and download_release has reported no asset.
C8_Witness ==
    /\ Returned("Downloading") /\ OS = "linux"
    /\ ret.err = "can't download release"
    /\ \E i \in 1..Len(release.assets) : release.assets[i].name = "lapce-linux.tar.gz"

\* The first asset named as the host expects.
FirstMatch == CHOOSE i \in Matches : \A j \in Matches : i <= j

\* download_release sent one GET, to the first matching asset, and a returned
\* path is <updates directory>/<expected name> holding the whole response body.
FirstMatchDownloaded ==
    /\ DownloadRequests =
          <<Request("download_release", release.assets[FirstMatch].browser_download_url)>>
    /\ (ret.kind = "Ok" =>
          /\ ret.path = <<"/", "updates", HostAssetName>>
          /\ dl.body \in AssetBodies
          /\ fs.artifact = File(dl.body))

\* C9 as stated: when assets carry the expected name, download_release sends
\* exactly one GET, to the first of them, and on success returns
\* <install-directory>/<expected-name> holding exactly the response body.
C9_FirstMatchOnly ==
    (Returned("Downloading") /\ ~UnsupportedHost /\ Matches # {}) =>
        FirstMatchDownloaded

\* C9 amended: the same when the updates directory can be resolved; when it
\* cannot, download_release returns DirectoryUnavailable and sends nothing.
C9_FirstMatchOnlyWithDirectory ==
    (Returned("Downloading") /\ ~UnsupportedHost /\ Matches # {}) =>
        IF ret = Err("no directory") THEN NothingDownloaded ELSE FirstMatchDownloaded

\* C9 witness: two assets with the expected name and different locations, a
\* stale file at the download path, and download_release has returned Ok.
C9_Witness ==
    /\ Returned("Downloading") /\ ret.kind = "Ok"
    /\ Cardinality(Matches) = 2
    /\ release.assets[1].browser_download_url # release.assets[2].browser_download_url
    /\ fs0.artifact.exists /\ fs0.artifact.data # dl.body

\* C10 as stated: a non-success status of the asset GET makes download_release
\* fail with RemoteError and leaves the file at the download path as it was.
C10_BadStatusIsRemoteError ==
    (Returned("Downloading") /\ dl.sent /\ ~dl.success) =>
        /\ ret.kind = "Err" /\ ErrorKind(ret.err) = "RemoteError"
        /\ fs.artifact = fs0.artifact

\* C10 amended: a non-success status makes download_release fail, with
\* RemoteError when the response body can be read and with the error of
\* reading it otherwise, and leaves the file at the download path as it was.
C10_BadStatusFailsUntouched ==
    (Returned("Downloading") /\ dl.sent /\ ~dl.success) =>
        /\ ret.kind = "Err"
        /\ (dl.textOk => ErrorKind(ret.err) = "RemoteError")
        /\ (~dl.textOk => ret.err = "reqwest::Error")
        /\ fs.artifact = fs0.artifact

\* C10 witness: the asset GET came back with a non-success status while a
\* file from an earlier run was at the download path.
C10_Witness ==
    /\ Returned("Downloading") /\ dl.sent /\ ~dl.success /\ dl.textOk
    /\ fs0.artifact.exists

\* restart is running on Windows or has returned there.
WindowsRestart == OS = "windows" /\ pc = "Relaunching"

\* C11: on Windows restart returns as soon as the helper is spawned, Ok exactly
\* when the spawn succeeded, before the helper has run taskkill or start and
\* whatever they do later; when it returns an error no helper exists and the
\* process is not terminated.
C11_ReturnsOnceSpawned ==
    /\ [](WindowsRestart =>
            /\ (ret.kind = "Ok" <=> helper # "none")
            /\ ret.kind # "Panic"
            /\ (helper = "none" => app = "running" /\ newApp = "none"))
    /\ [][(WindowsRestart /\ ret = NoRet /\ ret' # NoRet /\ ret'.kind = "Ok")
            => (helper' = "spawned" /\ app' = "running" /\ newApp' = "none")]_vars

\* C11 witness: restart returned Ok on Windows, and afterwards taskkill did not
\* end the process and start did not launch the new executable.
C11_Witness ==
    /\ WindowsRestart /\ ret.kind = "Ok"
    /\ helper = "done" /\ app = "running" /\ newApp = "failed"

\* C12: on Windows the new executable is started only after the old process
\* has terminated: the two instances never run at the same time.
C12_NewAfterOldTerminated == newApp = "running" => app = "terminated"

\* VERSION begins with the seven characters "nightly".
BeginsWithNightly ==
    /\ Len(VERSION) >= 7
    /\ <<VERSION[1], VERSION[2], VERSION[3], VERSION[4], VERSION[5], VERSION[6],
         VERSION[7]>> = <<"n", "i", "g", "h", "t", "l", "y">>

\* The endpoint of the build's channel.
ChannelUrl ==
    IF BeginsWithNightly
    THEN "https://api.github.com/repos/lapce/lapce/releases/tags/nightly"
    ELSE "https://api.github.com/repos/lapce/lapce/releases/latest"

\* C13 as stated: outside a development build, a call of get_latest_release
\* sends exactly one metadata request, to the nightly endpoint if and only if
\* VERSION begins with "nightly" and to the latest-release endpoint otherwise.
C13_OneRequestToChannel ==
    (VERSION # Debug /\ Returned("Fetching")) =>
        requests = <<Request("get_latest_release", ChannelUrl)>>

\* C13 amended: the call sends at most one metadata request, always to that
\* endpoint; it sends exactly one unless the HTTP client cannot be built, in
\* which case it returns that error and sends none.
C13_AtMostOneRequestToChannel ==
    VERSION # Debug =>
        /\ Len(MetadataRequests) <= 1
        /\ \A i \in 1..Len(MetadataRequests) : MetadataRequests[i].url = ChannelUrl
        /\ (Returned("Fetching") =>
              \/ requests = <<Request("get_latest_release", ChannelUrl)>>
              \/ requests = <<>> /\ ret = Err("reqwest::Error"))

\* C13 witness: a nightly build has fetched a release from the nightly endpoint.
C13_Witness ==
    /\ BeginsWithNightly /\ Returned("Fetching") /\ ret.kind = "Ok"
    /\ Len(requests) = 1 /\ requests[1].url = NightlyUrl

\* extract of the Linux/BSD or the Windows variant has returned.
ArchiveExtractReturned == Returned("Extracting") /\ OS # "macos"

\* extract of the macOS variant has returned.
DmgExtractReturned == Returned("Extracting") /\ OS = "macos"

\* The artifact could be opened (mounted, on macOS) and decoded to its end.
UnpackedCleanly ==
    /\ fs.artifact.exists /\ ex.openOk
    /\ Decodes(fs.artifact.data)
    /\ (OS # "macos" => ex.unpackOk)
    /\ Len(arg) > 1

\* No step of the call failed: the artifact was unpacked, the binary or bundle
\* was in it, the old executable (or an existing old bundle) could be removed
\* and the new one copied.
NoStepFailed ==
    /\ UnpackedCleanly
    /\ IsBinary(fs.artifact.data[2])
    /\ (ex.removeOk \/ (OS = "macos" /\ ~fs0.bundle.exists))
    /\ ex.copyOk

\* C14: in every variant a failing step makes extract return an error; extract
\* never panics and never returns Ok after a step has failed.
C14_FailingStepIsError ==
    Returned("Extracting") =>
        /\ ret.kind \in {"Ok", "Err"}
        /\ (ret.kind = "Ok" => NoStepFailed)

\* C15: in the Linux/BSD and Windows variants, when extract returns Ok the
\* returned path is the running executable's path and the file there holds the
\* binary just unpacked from the artifact, not what it held before.
C15_NewBinaryInPlace ==
    (ArchiveExtractReturned /\ ret.kind = "Ok") =>
        /\ ret.path = ex.process_path
        /\ IsBinary(fs.artifact.data[2])
        /\ fs.process = File(<<fs.artifact.data[2]>>)
        /\ fs.process # fs0.process

\* p without its last n components.
DropLast(p, n) == SubSeq(p, 1, Len(p) - n)

\* The running executable's directory is a bundle's Contents/MacOS.
InBundle == ex.process_path[Len(ex.process_path) - 1] = "MacOS"

\* The directory of the running executable.
ExeDir == DropLast(ex.process_path, 1)

C18_ExecutableKeptUntilUnpacked ==
    (ArchiveExtractReturned /\ ~UnpackedCleanly) =>
        /\ ret.kind = "Err"
        /\ fs.process = fs0.process

\* C18 witness: unpacking failed half way on Linux, where removing the
\* executable would have succeeded.
C18_Witness ==
    /\ ArchiveExtractReturned /\ OS = "linux"
    /\ fs.artifact.exists /\ ex.openOk /\ Decodes(fs.artifact.data)
    /\ ~ex.unpackOk /\ ex.partial /\ fs.unpacked = File(<<>>)
    /\ ex.removeOk /\ FileName(ex.process_path).some

\* C16: two invocations are not kept apart. File::create at the shared
\* download path is never held back by the other invocation, whatever that
\* one is doing; and an extractor reads something other than the body its own
\* invocation downloaded only when the other invocation has created the file
\* at the same path.
C16_NoMutualExclusion ==
    \A p \in Procs :
        /\ conc.pc[p] = "idle" => ENABLED BeginDownload(p)
        /\ conc.pc[p] = "create" => ENABLED CreateFile(p)
        /\ (conc.pc[p] = "done" /\ conc.read[p] # File(conc.body[p]))
               => \E q \in Procs \ {p} : conc.pc[q] \in HasCreated

\* Both invocations were inside download_release at once, and the first one's
\* extractor has read a file the second one truncated under it and is still
\* writing: a hole where the first chunk was, then the first one's last chunk.
C16_Witness ==
    /\ conc.overlap
    /\ conc.pc[1] = "done"
    /\ conc.pc[2] = "copy"
    /\ conc.copied[2] < Len(conc.body[2])
    /\ conc.body[1] = <<"hdr", "bin1">>
    /\ conc.read[1] = File(<<Zero, "bin1">>)

====
